---- MODULE Spec2Model ----
(***************************************************************************)
(* x509util certificate profiles: the Root, Intermediate and Leaf entry    *)
(* points, their default templates, and the construction routine they      *)
(* share (newProfile: option pipeline, default key pair).                  *)
(*                                                                         *)
(* A certificate draft is a record of the x509.Certificate fields the      *)
(* templates set.  A WithOption list is a Go slice: a view (length) of a   *)
(* backing array that the caller owns and may hand to several calls.       *)
(* Time is counted in hours.                                               *)
(***************************************************************************)
EXTENDS Integers, Sequences, FiniteSets, TLC

VARIABLES
    backing,     \* the caller's backing array of WithOption values (all slots, len..cap included)
    withOpsLen,  \* length of the slice the caller passes as withOps...
    pc,          \* per call: "idle", "options" (inside newProfile's loop), "done"
    entry,       \* per call: the entry point that was called
    args,        \* per call: the arguments it was called with
    ops,         \* per call: the slice newProfile ranges over
    prof,        \* per call: the profile under construction
    idx,         \* per call: index of the next option of the loop
    applied,     \* per call: the options invoked so far, in order
    res          \* per call: what the entry point returned

vars == <<backing, withOpsLen, pc, entry, args, ops, prof, idx, applied, res>>

-----------------------------------------------------------------------------
(* Bounds *)

MaxOps == 2       \* longest caller option list
MaxTime == 1      \* time.Now() is drawn from 0..MaxTime
MaxConcOps == 1   \* longest caller option list of the two-caller specification

Callers == {1, 2}
None == "none"
Names == {"a", "b"}
CallerKeys == {"k1", "k2"}
IssuerKeys == {"ik"}
Clock == 0..MaxTime
IntermediateVariants == {"part_000a", "part_000b", "part_001"}

-----------------------------------------------------------------------------
(* Validity defaults *)

DefaultRootCertValidity == 24 * 365 * 10

DefaultIntermediateCertValidity == 24 * 365 * 10

DefaultCertValidity == 24

-----------------------------------------------------------------------------
(* Default templates *)

RootExtKeyUsage == {"Any", "ServerAuth", "ClientAuth", "CodeSigning", "EmailProtection", "TimeStamping"}

ServiceExtKeyUsage == {"ServerAuth", "ClientAuth", "CodeSigning", "EmailProtection", "TimeStamping"}

VendorExtKeyUsage == {"SmartCardLogon", "DocumentSigning", "DocumentEncryption"}

defaultRootTemplate_PathLenZero(cn, now) ==
    [IsCA |-> TRUE, NotBefore |-> now, NotAfter |-> now + DefaultRootCertValidity,
     KeyUsage |-> {"DigitalSignature", "KeyEncipherment", "CertSign", "CRLSign"},
     ExtKeyUsage |-> RootExtKeyUsage, UnknownExtKeyUsage |-> VendorExtKeyUsage,
     PolicyIdentifiers |-> {},
     BasicConstraintsValid |-> TRUE, MaxPathLen |-> 0, MaxPathLenZero |-> TRUE,
     Issuer |-> cn, Subject |-> cn, PublicKey |-> None, DNSNames |-> <<>>]

defaultRootTemplate(cn, now) ==
    [IsCA |-> TRUE, NotBefore |-> now, NotAfter |-> now + DefaultRootCertValidity,
     KeyUsage |-> {"DigitalSignature", "KeyEncipherment", "CertSign", "CRLSign"},
     ExtKeyUsage |-> RootExtKeyUsage, UnknownExtKeyUsage |-> VendorExtKeyUsage,
     PolicyIdentifiers |-> {},
     BasicConstraintsValid |-> TRUE, MaxPathLen |-> 1, MaxPathLenZero |-> FALSE,
     Issuer |-> cn, Subject |-> cn, PublicKey |-> None, DNSNames |-> <<>>]

\* The three revisions of the intermediate template differ in key usage,
\* extended key usage and policy identifiers only.
defaultIntermediateTemplate(name, now, variant) ==
    [IsCA |-> TRUE, NotBefore |-> now, NotAfter |-> now + DefaultIntermediateCertValidity,
     KeyUsage |-> IF variant = "part_000b"
                  THEN {"DigitalSignature", "CertSign", "CRLSign"}
                  ELSE {"DigitalSignature", "KeyEncipherment", "CertSign", "CRLSign"},
     ExtKeyUsage |-> IF variant = "part_001" THEN RootExtKeyUsage ELSE ServiceExtKeyUsage,
     UnknownExtKeyUsage |-> IF variant = "part_000b" THEN {} ELSE VendorExtKeyUsage,
     PolicyIdentifiers |-> CASE variant = "part_000a" -> {"AllIssuancePolicies", "EVGuidelines", "EVCodeSigning"}
                             [] variant = "part_000b" -> {"AllIssuancePolicies"}
                             [] OTHER -> {},
     BasicConstraintsValid |-> TRUE, MaxPathLen |-> 0, MaxPathLenZero |-> TRUE,
     Issuer |-> name, Subject |-> name, PublicKey |-> None, DNSNames |-> <<>>]

defaultLeafTemplate_RootValidity(sub, iss, now) ==
    [IsCA |-> FALSE, NotBefore |-> now, NotAfter |-> now + DefaultRootCertValidity,
     KeyUsage |-> {"DigitalSignature", "KeyEncipherment"},
     ExtKeyUsage |-> ServiceExtKeyUsage, UnknownExtKeyUsage |-> VendorExtKeyUsage,
     PolicyIdentifiers |-> {"AllIssuancePolicies", "EVGuidelines", "EVCodeSigning"},
     BasicConstraintsValid |-> FALSE, MaxPathLen |-> 0, MaxPathLenZero |-> FALSE,
     Issuer |-> iss, Subject |-> sub, PublicKey |-> None, DNSNames |-> <<>>]

defaultLeafTemplate_CertSign(sub, iss, now) ==
    [IsCA |-> FALSE, NotBefore |-> now, NotAfter |-> now + DefaultCertValidity,
     KeyUsage |-> {"DigitalSignature", "KeyEncipherment", "CertSign"},
     ExtKeyUsage |-> ServiceExtKeyUsage, UnknownExtKeyUsage |-> VendorExtKeyUsage,
     PolicyIdentifiers |-> {"AllIssuancePolicies", "EVGuidelines", "EVCodeSigning"},
     BasicConstraintsValid |-> FALSE, MaxPathLen |-> 0, MaxPathLenZero |-> FALSE,
     Issuer |-> iss, Subject |-> sub, PublicKey |-> None, DNSNames |-> <<>>]

defaultLeafTemplate(sub, iss, now) ==
    [IsCA |-> FALSE, NotBefore |-> now, NotAfter |-> now + DefaultCertValidity,
     KeyUsage |-> {"DigitalSignature", "KeyEncipherment"},
     ExtKeyUsage |-> ServiceExtKeyUsage, UnknownExtKeyUsage |-> VendorExtKeyUsage,
     PolicyIdentifiers |-> {"AllIssuancePolicies", "EVGuidelines", "EVCodeSigning"},
     BasicConstraintsValid |-> FALSE, MaxPathLen |-> 0, MaxPathLenZero |-> FALSE,
     Issuer |-> iss, Subject |-> sub, PublicKey |-> None, DNSNames |-> <<>>]

\* the zero x509.Certificate, standing for "no certificate"
NilCert ==
    [IsCA |-> FALSE, NotBefore |-> 0, NotAfter |-> 0, KeyUsage |-> {},
     ExtKeyUsage |-> {}, UnknownExtKeyUsage |-> {}, PolicyIdentifiers |-> {},
     BasicConstraintsValid |-> FALSE, MaxPathLen |-> 0, MaxPathLenZero |-> FALSE,
     Issuer |-> None, Subject |-> None, PublicKey |-> None, DNSNames |-> <<>>]

-----------------------------------------------------------------------------
(* Role durations *)

RootDefaultDuration == DefaultRootCertValidity

IntermediateDefaultDuration == DefaultIntermediateCertValidity

LeafDefaultDuration == DefaultCertValidity

DefaultDuration(role) ==
    CASE role = "Root" -> RootDefaultDuration
      [] role = "Intermediate" -> IntermediateDefaultDuration
      [] OTHER -> LeafDefaultDuration

-----------------------------------------------------------------------------
(* Options *)

WithPublicKey(pub) == [kind |-> "pub", s |-> pub, n |-> 0]

WithSubjectKey(k) == [kind |-> "key", s |-> k, n |-> 0]

WithCommonName(cn) == [kind |-> "cn", s |-> cn, n |-> 0]

WithValidity(d) == [kind |-> "validity", s |-> None, n |-> d]

FailingOption == [kind |-> "fail", s |-> None, n |-> 0]

\* an array slot past the slice's length: a nil func value
NilOption == [kind |-> "nil", s |-> None, n |-> 0]

OverrideValidity == 48

CallerOptions ==
    {WithPublicKey("k1"), WithSubjectKey("k2"), WithCommonName("a"), WithCommonName("b"),
     WithValidity(OverrideValidity), FailingOption}

RECURSIVE SeqsUpTo(_, _)
SeqsUpTo(S, n) ==
    IF n = 0 THEN {<<>>}
    ELSE LET shorter == SeqsUpTo(S, n - 1)
         IN  shorter \cup {Append(l, x) : l \in shorter, x \in S}

-----------------------------------------------------------------------------
(* Profile *)

NilProfile ==
    [role |-> None, sub |-> NilCert, issIsSub |-> FALSE, iss |-> NilCert,
     issPriv |-> None, subPub |-> None, subPriv |-> None]

\* Subject() and Issuer(): for Root and the self-signed Leaf both are the same
\* *x509.Certificate, so the issuer draft is read through the subject draft.
Subject(p) == p.sub

Issuer(p) == IF p.issIsSub THEN p.sub ELSE p.iss

SubjectPrivateKey(p) == p.subPriv

SubjectPublicKey(p) == p.subPub

SetIssuerPrivateKey(p, k) == [p EXCEPT !.issPriv = k]

SetSubjectPublicKey(p, k) == [p EXCEPT !.subPub = k]

GenerateDefaultKeyPair(p, fresh) == [p EXCEPT !.subPub = fresh, !.subPriv = fresh]

\* the key the key-generation service hands to call c
GenKey(c) == IF c = 1 THEN "gen1" ELSE "gen2"

NoResult == [err |-> None, p |-> NilProfile, selfSigned |-> FALSE]

-----------------------------------------------------------------------------
(* Role invariants of a template *)

PathLenPresent(crt) ==
    crt.BasicConstraintsValid /\ (crt.MaxPathLen > 0 \/ crt.MaxPathLenZero)

ValidTemplate(role, crt) ==
    CASE role = "Root" -> crt.IsCA /\ PathLenPresent(crt) /\ crt.MaxPathLen = 1
      [] role = "Intermediate" -> crt.IsCA /\ PathLenPresent(crt) /\ crt.MaxPathLen = 0
      [] OTHER -> /\ ~crt.IsCA
                  /\ ~PathLenPresent(crt)
                  /\ crt.KeyUsage \cap {"CertSign", "CRLSign"} = {}

-----------------------------------------------------------------------------
(* Option slices *)

UserSlice == [shared |-> TRUE, len |-> withOpsLen, priv |-> <<>>]

EmptySlice == [shared |-> FALSE, len |-> 0, priv |-> <<>>]

SliceSeq(bk, sl) == IF sl.shared THEN SubSeq(bk, 1, sl.len) ELSE sl.priv

\* append(withOps, x): in place when the backing array has room, else a copy
AppendOption(bk, sl, x) ==
    IF sl.shared /\ sl.len < Len(bk)
    THEN [backing |-> [bk EXCEPT ![sl.len + 1] = x],
          slice |-> [sl EXCEPT !.len = sl.len + 1]]
    ELSE [backing |-> bk,
          slice |-> [shared |-> FALSE, len |-> sl.len + 1,
                     priv |-> Append(SliceSeq(bk, sl), x)]]

-----------------------------------------------------------------------------
(* newProfile: the construction routine all entry points share *)

\* Entry into newProfile: the template is checked against the role, then the
\* subject draft, issuer draft and issuer key are stored in the profile.  The
\* result carries the slice the option loop will range over and the backing
\* array as the entry point left it.
newProfile(role, sub, issIsSub, iss, issPriv, withOps, bk) ==
    IF ~ValidTemplate(role, sub)
    THEN [err |-> "InvalidTemplate", p |-> NilProfile, ops |-> withOps, backing |-> bk]
    ELSE [err |-> None,
          p |-> SetIssuerPrivateKey(
                    [role |-> role, sub |-> sub, issIsSub |-> issIsSub,
                     iss |-> IF issIsSub THEN NilCert ELSE iss,
                     issPriv |-> None, subPub |-> None, subPriv |-> None],
                    issPriv),
          ops |-> withOps, backing |-> bk]

\* One option applied to the profile: the new profile, or the option's error.
ApplyOpt(op, p) ==
    CASE op.kind = "pub" -> [err |-> None, p |-> SetSubjectPublicKey(p, op.s)]
      [] op.kind = "key" -> [err |-> None, p |-> [p EXCEPT !.subPub = op.s, !.subPriv = op.s]]
      [] op.kind = "cn" -> [err |-> None, p |-> [p EXCEPT !.sub.Subject = op.s]]
      [] op.kind = "validity" ->
            [err |-> None, p |-> [p EXCEPT !.sub.NotAfter = p.sub.NotBefore + op.n]]
      [] OTHER -> [err |-> "OptionRejected", p |-> p]

\* After the loop: a key pair is generated when no public key was set.
DefaultKey(p, fresh) ==
    IF SubjectPublicKey(p) = None THEN GenerateDefaultKeyPair(p, fresh) ELSE p

-----------------------------------------------------------------------------
(* Entry points: the call each makes to newProfile *)

NewRootProfileWithTemplate(crt, withOps, bk) ==
    newProfile("Root", crt, TRUE, crt, None, withOps, bk)

NewRootProfile_DropOps(name, now, withOps, bk) ==
    NewRootProfileWithTemplate(defaultRootTemplate(name, now), EmptySlice, bk)

NewRootProfile(name, now, withOps, bk) ==
    NewRootProfileWithTemplate(defaultRootTemplate(name, now), withOps, bk)

NewIntermediateProfile_NoIssuerKey(name, now, variant, iss, issPriv, withOps, bk) ==
    newProfile("Intermediate", defaultIntermediateTemplate(name, now, variant),
               FALSE, iss, None, withOps, bk)

NewIntermediateProfile(name, now, variant, iss, issPriv, withOps, bk) ==
    newProfile("Intermediate", defaultIntermediateTemplate(name, now, variant),
               FALSE, iss, issPriv, withOps, bk)

NewLeafProfileWithTemplate(sub, iss, issPriv, withOps, bk) ==
    LET a == AppendOption(bk, withOps, WithPublicKey(sub.PublicKey))
    IN  newProfile("Leaf", sub, FALSE, iss, issPriv, a.slice, a.backing)

NewLeafProfile(cn, now, iss, issPriv, withOps, bk) ==
    newProfile("Leaf", defaultLeafTemplate(cn, iss.Subject, now),
               FALSE, iss, issPriv, withOps, bk)

NewSelfSignedLeafProfile(cn, now, withOps, bk) ==
    LET sub == defaultLeafTemplate(cn, cn, now)
    IN  newProfile("Leaf", sub, TRUE, sub, None, withOps, bk)

\* Of the request's alternative names only the DNS names are kept in the
\* draft record; e-mail addresses, IP addresses, URIs and extensions are
\* copied the same way.
NewLeafProfileWithCSR_NoKeyCheck(csr, now, iss, issPriv, withOps, bk) ==
    LET sub == [defaultLeafTemplate(csr.Subject, iss.Subject, now)
                    EXCEPT !.DNSNames = csr.DNSNames]
        a == AppendOption(bk, withOps, WithPublicKey(csr.PublicKey))
    IN  newProfile("Leaf", sub, FALSE, iss, issPriv, a.slice, a.backing)

NewLeafProfileWithCSR(csr, now, iss, issPriv, withOps, bk) ==
    IF csr.PublicKey = None
    THEN [err |-> "MissingPublicKey", p |-> NilProfile, ops |-> withOps, backing |-> bk]
    ELSE LET sub == [defaultLeafTemplate(csr.Subject, iss.Subject, now)
                        EXCEPT !.DNSNames = csr.DNSNames]
             a == AppendOption(bk, withOps, WithPublicKey(csr.PublicKey))
         IN  newProfile("Leaf", sub, FALSE, iss, issPriv, a.slice, a.backing)

(* Entry points: what each returns from newProfile's result r = [err, p] *)

SelfSignReturn_NoCopy(r) ==
    IF r.err # None
    THEN [err |-> r.err, p |-> NilProfile, selfSigned |-> FALSE]
    ELSE [err |-> None, p |-> r.p, selfSigned |-> FALSE]

SelfSignReturn_IgnoreErr(r) ==
    [err |-> r.err,
     p |-> SetIssuerPrivateKey(r.p, SubjectPrivateKey(r.p)),
     selfSigned |-> TRUE]

\* Root and the self-signed Leaf: on success the subject key becomes the issuer key.
SelfSignReturn(r) ==
    IF r.err # None
    THEN [err |-> r.err, p |-> NilProfile, selfSigned |-> FALSE]
    ELSE [err |-> None,
          p |-> SetIssuerPrivateKey(r.p, SubjectPrivateKey(r.p)),
          selfSigned |-> TRUE]

\* The other entry points return newProfile's result as it is.
PlainReturn(r) ==
    [err |-> r.err, p |-> IF r.err # None THEN NilProfile ELSE r.p, selfSigned |-> FALSE]

SelfSignedEntries == {"NewRootProfile", "NewRootProfileWithTemplate", "NewSelfSignedLeafProfile"}

EntryReturn(e, r) == IF e \in SelfSignedEntries THEN SelfSignReturn(r) ELSE PlainReturn(r)

-----------------------------------------------------------------------------
(* Inputs *)

NilCSR == [Subject |-> None, PublicKey |-> None, DNSNames |-> <<>>]

NoArgs ==
    [name |-> None, now |-> 0, variant |-> None, tmpl |-> NilCert, csr |-> NilCSR,
     iss |-> NilCert, issPriv |-> None]

IssuerCerts == {defaultRootTemplate("ca", 0), defaultIntermediateTemplate("ica", 0, "part_001")}

RootTemplates ==
    LET t == defaultRootTemplate("a", 0)
    IN  {t, [t EXCEPT !.IsCA = FALSE], [t EXCEPT !.MaxPathLen = 2],
         [t EXCEPT !.BasicConstraintsValid = FALSE], [t EXCEPT !.NotAfter = 100]}

LeafTemplates ==
    LET t == defaultLeafTemplate("a", "ca", 0)
        shapes == {t, [t EXCEPT !.IsCA = TRUE, !.BasicConstraintsValid = TRUE],
                   [t EXCEPT !.KeyUsage = {"DigitalSignature", "CertSign"}],
                   [t EXCEPT !.NotAfter = 100]}
    IN  {[s EXCEPT !.PublicKey = k] : s \in shapes, k \in CallerKeys \cup {None}}

CSRs ==
    [Subject : Names, PublicKey : CallerKeys \cup {None},
     DNSNames : {<<>>, <<"a.example", "b.example">>}]

ConcOptions == {WithPublicKey("k1"), WithCommonName("b"), FailingOption}

ConcIssuers == {defaultRootTemplate("ca", 0)}

ConcCSRs == [Subject : {"a"}, PublicKey : CallerKeys \cup {None}, DNSNames : {<<>>}]

ConcTemplates == {[defaultLeafTemplate("a", "ca", 0) EXCEPT !.PublicKey = k] : k \in CallerKeys}

-----------------------------------------------------------------------------
(* Initial states *)

\* The caller's options sit in an array with or without one spare slot.
InitWith(lists) ==
    /\ \E l \in lists, spare \in {<<>>, <<NilOption>>} :
          /\ backing = l \o spare
          /\ withOpsLen = Len(l)
    /\ pc = [c \in Callers |-> "idle"]
    /\ entry = [c \in Callers |-> None]
    /\ args = [c \in Callers |-> NoArgs]
    /\ ops = [c \in Callers |-> EmptySlice]
    /\ prof = [c \in Callers |-> NilProfile]
    /\ idx = [c \in Callers |-> 1]
    /\ applied = [c \in Callers |-> <<>>]
    /\ res = [c \in Callers |-> NoResult]

Init == InitWith(SeqsUpTo(CallerOptions, MaxOps))

InitConc == InitWith(SeqsUpTo(ConcOptions, MaxConcOps))

-----------------------------------------------------------------------------
(* Actions *)

\* Call c enters entry point e with arguments a; inv is the entry point's call
\* to newProfile (or its own early error).
Start(c, e, a, inv) ==
    /\ pc[c] = "idle"
    /\ entry' = [entry EXCEPT ![c] = e]
    /\ args' = [args EXCEPT ![c] = a]
    /\ backing' = inv.backing
    /\ ops' = [ops EXCEPT ![c] = inv.ops]
    /\ prof' = [prof EXCEPT ![c] = inv.p]
    /\ idx' = [idx EXCEPT ![c] = 1]
    /\ IF inv.err # None
       THEN /\ pc' = [pc EXCEPT ![c] = "done"]
            /\ res' = [res EXCEPT ![c] = EntryReturn(e, [err |-> inv.err, p |-> NilProfile])]
       ELSE /\ pc' = [pc EXCEPT ![c] = "options"]
            /\ res' = res
    /\ UNCHANGED <<withOpsLen, applied>>

CallNewRootProfile(c) ==
    \E name \in Names, now \in Clock :
        Start(c, "NewRootProfile", [NoArgs EXCEPT !.name = name, !.now = now],
              NewRootProfile(name, now, UserSlice, backing))

CallNewRootProfileWithTemplate(c) ==
    \E crt \in RootTemplates :
        Start(c, "NewRootProfileWithTemplate", [NoArgs EXCEPT !.tmpl = crt],
              NewRootProfileWithTemplate(crt, UserSlice, backing))

CallNewIntermediateProfile(c) ==
    \E name \in Names, now \in Clock, variant \in IntermediateVariants,
       iss \in IssuerCerts, issPriv \in IssuerKeys :
        Start(c, "NewIntermediateProfile",
              [NoArgs EXCEPT !.name = name, !.now = now, !.variant = variant,
                             !.iss = iss, !.issPriv = issPriv],
              NewIntermediateProfile(name, now, variant, iss, issPriv, UserSlice, backing))

CallNewLeafProfile(c) ==
    \E cn \in Names, now \in Clock, iss \in IssuerCerts, issPriv \in IssuerKeys :
        Start(c, "NewLeafProfile",
              [NoArgs EXCEPT !.name = cn, !.now = now, !.iss = iss, !.issPriv = issPriv],
              NewLeafProfile(cn, now, iss, issPriv, UserSlice, backing))

CallNewLeafProfileWithTemplate(c, tmpls, isss) ==
    \E sub \in tmpls, iss \in isss, issPriv \in IssuerKeys :
        Start(c, "NewLeafProfileWithTemplate",
              [NoArgs EXCEPT !.tmpl = sub, !.iss = iss, !.issPriv = issPriv],
              NewLeafProfileWithTemplate(sub, iss, issPriv, UserSlice, backing))

CallNewSelfSignedLeafProfile(c) ==
    \E cn \in Names, now \in Clock :
        Start(c, "NewSelfSignedLeafProfile", [NoArgs EXCEPT !.name = cn, !.now = now],
              NewSelfSignedLeafProfile(cn, now, UserSlice, backing))

CallNewLeafProfileWithCSR(c, csrs, isss, times) ==
    \E csr \in csrs, now \in times, iss \in isss, issPriv \in IssuerKeys :
        Start(c, "NewLeafProfileWithCSR",
              [NoArgs EXCEPT !.csr = csr, !.now = now, !.iss = iss, !.issPriv = issPriv],
              NewLeafProfileWithCSR(csr, now, iss, issPriv, UserSlice, backing))

\* the element range reads from the slice at position i
OpAt(c, i) == IF ops[c].shared THEN backing[i] ELSE ops[c].priv[i]

\* One iteration of newProfile's loop over withOps.
ApplyOption(c) ==
    /\ pc[c] = "options"
    /\ idx[c] <= ops[c].len
    /\ LET op == OpAt(c, idx[c])
           r == ApplyOpt(op, prof[c])
       IN  /\ applied' = [applied EXCEPT ![c] = Append(applied[c], op)]
           /\ IF r.err # None
              THEN /\ pc' = [pc EXCEPT ![c] = "done"]
                   /\ res' = [res EXCEPT ![c] = EntryReturn(entry[c], [err |-> r.err, p |-> NilProfile])]
                   /\ UNCHANGED <<prof, idx>>
              ELSE /\ prof' = [prof EXCEPT ![c] = r.p]
                   /\ idx' = [idx EXCEPT ![c] = idx[c] + 1]
                   /\ UNCHANGED <<pc, res>>
    /\ UNCHANGED <<backing, withOpsLen, entry, args, ops>>

\* End of newProfile (default key pair) and the entry point's return.
Finish(c) ==
    /\ pc[c] = "options"
    /\ idx[c] > ops[c].len
    /\ LET p1 == DefaultKey(prof[c], GenKey(c))
           r == EntryReturn(entry[c], [err |-> None, p |-> p1])
       IN  /\ prof' = [prof EXCEPT ![c] = r.p]
           /\ res' = [res EXCEPT ![c] = r]
    /\ pc' = [pc EXCEPT ![c] = "done"]
    /\ UNCHANGED <<backing, withOpsLen, entry, args, ops, idx, applied>>

-----------------------------------------------------------------------------
(* Specifications *)

\* One caller, every entry point, every input.
Next ==
    \/ CallNewRootProfile(1)
    \/ CallNewRootProfileWithTemplate(1)
    \/ CallNewIntermediateProfile(1)
    \/ CallNewLeafProfile(1)
    \/ CallNewLeafProfileWithTemplate(1, LeafTemplates, IssuerCerts)
    \/ CallNewSelfSignedLeafProfile(1)
    \/ CallNewLeafProfileWithCSR(1, CSRs, IssuerCerts, Clock)
    \/ ApplyOption(1)
    \/ Finish(1)

Spec == Init /\ [][Next]_vars

\* Two callers building Leaf profiles at the same time from the same option
\* slice and the same issuer certificate.
NextConc ==
    \E c \in Callers :
        \/ CallNewLeafProfileWithTemplate(c, ConcTemplates, ConcIssuers)
        \/ CallNewLeafProfileWithCSR(c, ConcCSRs, ConcIssuers, {0})
        \/ ApplyOption(c)
        \/ Finish(c)

SpecConc == InitConc /\ [][NextConc]_vars

-----------------------------------------------------------------------------
(* A call run on its own, as one function of its arguments *)

UserOps == SubSeq(backing, 1, withOpsLen)

\* the backing array as the caller built it, before any call appended to it
CallerBacking ==
    IF Len(backing) > withOpsLen
    THEN [backing EXCEPT ![withOpsLen + 1] = NilOption]
    ELSE backing

RECURSIVE ApplyAll(_, _)
ApplyAll(seq, p) ==
    IF seq = <<>> THEN [err |-> None, p |-> p]
    ELSE LET r == ApplyOpt(Head(seq), p)
         IN  IF r.err # None THEN [err |-> r.err, p |-> NilProfile]
             ELSE ApplyAll(Tail(seq), r.p)

Invocation(e, a) ==
    CASE e = "NewRootProfile" -> NewRootProfile(a.name, a.now, UserSlice, CallerBacking)
      [] e = "NewRootProfileWithTemplate" -> NewRootProfileWithTemplate(a.tmpl, UserSlice, CallerBacking)
      [] e = "NewIntermediateProfile" ->
            NewIntermediateProfile(a.name, a.now, a.variant, a.iss, a.issPriv, UserSlice, CallerBacking)
      [] e = "NewLeafProfile" -> NewLeafProfile(a.name, a.now, a.iss, a.issPriv, UserSlice, CallerBacking)
      [] e = "NewLeafProfileWithTemplate" ->
            NewLeafProfileWithTemplate(a.tmpl, a.iss, a.issPriv, UserSlice, CallerBacking)
      [] e = "NewSelfSignedLeafProfile" -> NewSelfSignedLeafProfile(a.name, a.now, UserSlice, CallerBacking)
      [] OTHER -> NewLeafProfileWithCSR(a.csr, a.now, a.iss, a.issPriv, UserSlice, CallerBacking)

RunAlone(c) ==
    LET e == entry[c]
        inv == Invocation(e, args[c])
    IN  IF inv.err # None THEN EntryReturn(e, [err |-> inv.err, p |-> NilProfile])
        ELSE LET r == ApplyAll(SliceSeq(inv.backing, inv.ops), inv.p)
             IN  IF r.err # None THEN EntryReturn(e, r)
                 ELSE EntryReturn(e, [err |-> None, p |-> DefaultKey(r.p, GenKey(c))])

-----------------------------------------------------------------------------
(* Properties *)

Done(c) == pc[c] = "done"

Returned(c) == pc[c] = "done" /\ res[c].err = None

OfKind(k) == {i \in 1..withOpsLen : UserOps[i].kind = k}

LastOfKind(k) == CHOOSE i \in OfKind(k) : \A j \in OfKind(k) : j <= i

DefaultTemplateEntries ==
    {"NewRootProfile", "NewIntermediateProfile", "NewLeafProfile",
     "NewSelfSignedLeafProfile", "NewLeafProfileWithCSR"}

\* C1: a profile returned by NewRootProfile, NewRootProfileWithTemplate or
\* NewSelfSignedLeafProfile has its issuer private key equal to the subject
\* private key it holds at return; a subject key set by an option is the
\* issuer key too, whichever position the option had.
C1_IssuerKeyIsSubjectKey ==
    \A c \in Callers :
        (Returned(c) /\ entry[c] \in SelfSignedEntries) =>
            /\ res[c].selfSigned
            /\ res[c].p.issPriv = res[c].p.subPriv
            /\ (OfKind("key") # {} => res[c].p.issPriv = UserOps[LastOfKind("key")].s)
            /\ (res[c].p.subPub = GenKey(c) => res[c].p.issPriv = GenKey(c))

C1_Witness ==
    \E c \in Callers :
        /\ Returned(c) /\ entry[c] = "NewRootProfile"
        /\ withOpsLen = MaxOps /\ UserOps[MaxOps].kind = "key"
        /\ res[c].p.issPriv = "k2"

\* C2 (as stated): the subject public key of a returned Leaf is the request's
\* public key for NewLeafProfileWithCSR and the template's public key for
\* NewLeafProfileWithTemplate, whatever the caller's options.
C2_ForcedKeyWins ==
    \A c \in Callers :
        Returned(c) =>
            /\ (entry[c] = "NewLeafProfileWithCSR" => res[c].p.subPub = args[c].csr.PublicKey)
            /\ (entry[c] = "NewLeafProfileWithTemplate" => res[c].p.subPub = args[c].tmpl.PublicKey)

\* C3: NewLeafProfileWithCSR on a request without a public key returns the
\* MissingPublicKey error and no profile; no template was derived, nothing
\* was appended to the options, no option ran and no key was generated.
C3_MissingPublicKey ==
    \A c \in Callers :
        (entry[c] = "NewLeafProfileWithCSR" /\ args[c].csr.PublicKey = None) =>
            /\ pc[c] = "done"
            /\ res[c].err = "MissingPublicKey"
            /\ res[c].p = NilProfile
            /\ prof[c] = NilProfile
            /\ applied[c] = <<>>
            /\ ops[c] = UserSlice

C3_Witness ==
    \E c \in Callers :
        /\ Done(c) /\ entry[c] = "NewLeafProfileWithCSR"
        /\ args[c].csr.PublicKey = None
        /\ withOpsLen > 0 /\ UserOps[1].kind = "pub"
        /\ res[c].err = "MissingPublicKey"

\* C4: the options invoked are the caller's options in the order supplied;
\* nothing is invoked after an option that fails; a failing option ends the
\* call with that error, no profile and, for Root and the self-signed Leaf,
\* without the copy of the subject key into the issuer key; a call that
\* returns a profile has invoked every option.
C4_FirstFailureAborts ==
    \A c \in Callers :
        /\ Len(applied[c]) <= ops[c].len
        /\ \A j \in 1..Len(applied[c]) :
              /\ (j <= withOpsLen => applied[c][j] = UserOps[j])
              /\ (j < Len(applied[c]) => applied[c][j].kind # "fail")
        /\ (Len(applied[c]) > 0 /\ applied[c][Len(applied[c])].kind = "fail") =>
              /\ pc[c] = "done"
              /\ res[c].err = "OptionRejected"
              /\ res[c].p = NilProfile
              /\ ~res[c].selfSigned
        /\ Returned(c) =>
              /\ Len(applied[c]) = ops[c].len
              /\ OfKind("fail") = {}

C4_Witness ==
    \E c \in Callers :
        /\ Done(c) /\ entry[c] \in SelfSignedEntries
        /\ withOpsLen = 2 /\ UserOps[1].kind = "fail" /\ UserOps[2].kind = "key"
        /\ applied[c] = <<UserOps[1]>>
        /\ res[c].err = "OptionRejected" /\ res[c].p = NilProfile

\* C5 (as stated): for every entry point, a returned profile built without a
\* validity-overriding option has notAfter - notBefore = the role's default
\* duration.
C5_DefaultDurationEverywhere ==
    \A c \in Callers :
        (Returned(c) /\ OfKind("validity") = {}) =>
            res[c].p.sub.NotAfter - res[c].p.sub.NotBefore = DefaultDuration(res[c].p.role)

\* C5 (amended): that holds for the entry points that derive the subject
\* draft from a default template (from name, from request, self-signed); a
\* profile built from a caller-supplied template keeps the template's window.
C5_DefaultDuration ==
    \A c \in Callers :
        (Returned(c) /\ OfKind("validity") = {}) =>
            /\ entry[c] \in DefaultTemplateEntries =>
                  /\ res[c].p.sub.NotBefore = args[c].now
                  /\ res[c].p.sub.NotAfter - res[c].p.sub.NotBefore = DefaultDuration(res[c].p.role)
            /\ entry[c] \notin DefaultTemplateEntries =>
                  /\ res[c].p.sub.NotBefore = args[c].tmpl.NotBefore
                  /\ res[c].p.sub.NotAfter = args[c].tmpl.NotAfter

C5_Witness ==
    \E c \in Callers :
        /\ Returned(c) /\ entry[c] = "NewLeafProfileWithCSR"
        /\ args[c].now = MaxTime
        /\ withOpsLen > 0 /\ OfKind("validity") = {}
        /\ res[c].p.sub.NotAfter = MaxTime + DefaultCertValidity

C8_Intermediate ==
    \A c \in Callers :
        (Done(c) /\ entry[c] = "NewIntermediateProfile" /\ withOpsLen = 0) =>
            /\ res[c].err = None
            /\ res[c].p.role = "Intermediate"
            /\ Issuer(res[c].p) = args[c].iss
            /\ Issuer(res[c].p).Subject = args[c].iss.Subject
            /\ res[c].p.issPriv = args[c].issPriv
            /\ res[c].p.subPriv = GenKey(c)
            /\ res[c].p.issPriv # res[c].p.subPriv
            /\ res[c].p.sub.IsCA
            /\ res[c].p.sub.BasicConstraintsValid
            /\ res[c].p.sub.MaxPathLen = 0
            /\ res[c].p.sub.MaxPathLenZero

C8_Witness ==
    \E c \in Callers :
        /\ Returned(c) /\ entry[c] = "NewIntermediateProfile" /\ withOpsLen = 0
        /\ args[c].iss.Subject = "ica"
        /\ res[c].p.issPriv = "ik" /\ res[c].p.subPriv = GenKey(c)

\* C9: when two or more of the caller's options set the common name and the
\* call returns a profile, the subject common name is the one set by the last
\* of them.
C9_LastCommonNameWins ==
    \A c \in Callers :
        (Returned(c) /\ Cardinality(OfKind("cn")) >= 2) =>
            res[c].p.sub.Subject = UserOps[LastOfKind("cn")].s

C9_Witness ==
    \E c \in Callers :
        /\ Returned(c) /\ entry[c] = "NewLeafProfile" /\ args[c].name = "a"
        /\ UserOps = <<WithCommonName("a"), WithCommonName("b")>>
        /\ res[c].p.sub.Subject = "b"

\* C10 (as stated): in every interleaving of two constructions, each call
\* returns what it returns when run alone.
C10_AsIfAlone ==
    \A c \in Callers : Done(c) => res[c] = RunAlone(c)

====
